---- MODULE Spec2Model ----
(***************************************************************************)
(* The image pipeline of radar (src/src/main.rs): the palette quantizer    *)
(* find_closest_color, the Floyd-Steinberg ditherer apply_floyd_steinberg  *)
(* and the e-paper transcoder pixmap_to_epd_bin.                           *)
(*                                                                         *)
(* The ditherer computes in f32.  TLC's integers are 32 bits wide, so an   *)
(* f32 is modelled as a record [s, m, e] that stands for                   *)
(* (-1)^s * m * 2^e with m = 0 (zero) or 2^23 <= m < 2^24, and every       *)
(* arithmetic operation rounds to nearest, ties to even, as IEEE 754       *)
(* binary32 does.  Infinities, NaN and subnormals are not modelled: the    *)
(* values of the pipeline stay far inside the normal range.                *)
(***************************************************************************)
EXTENDS Integers, Sequences, FiniteSets, TLC

(***************************************************************************)
(* Bounds of the model.                                                    *)
(***************************************************************************)
\* A source raster handed to apply_floyd_steinberg has at most MaxPixels
\* pixels (W * H).
MaxPixels == 4
\* A source raster handed to pixmap_to_epd_bin, or rendered from an svg tree,
\* has at most MaxSide columns and at most MaxSide rows.
MaxSide == 2

\* One-colour rasters handed to apply_floyd_steinberg have sides 1..MaxUniformSide.
MaxUniformSide == 4

\* Single loop iterations of pixmap_to_epd_bin are taken at the destination
\* positions within EdgeMargin of the edges of the panel and of its strips.
EdgeMargin == 2

(***************************************************************************)
(* f32 arithmetic.                                                         *)
(***************************************************************************)
Mant == 2^24            \* mantissas are below 2^24
Half == 2^23            \* and, when not zero, at least 2^23

FZero == [s |-> 0, m |-> 0, e |-> 0]

\* Number of bits of n, for 0 <= n < 2^31: the least len with n < 2^len.
RECURSIVE BitLenIn(_, _, _)
BitLenIn(n, lo, hi) ==
    IF lo = hi THEN lo
    ELSE LET mid == (lo + hi) \div 2 IN
         IF n < 2^mid THEN BitLenIn(n, lo, mid) ELSE BitLenIn(n, mid + 1, hi)

BitLen(n) == BitLenIn(n, 0, 31)

\* The f32 nearest to (-1)^s * (n + sticky) * 2^e, where 0 <= n < 2^31 and
\* sticky (0 or 1) says that the exact value has further non-zero bits below
\* the last bit of n.  Round to nearest, ties to even.
FRound(s, n, e, sticky) ==
    IF n = 0 THEN FZero
    ELSE LET len == BitLen(n) IN
         IF len <= 24
         THEN [s |-> s, m |-> n * 2^(24 - len), e |-> e - (24 - len)]
         ELSE LET sh   == len - 24
                  q    == n \div 2^sh
                  r    == n % 2^sh
                  half == 2^(sh - 1)
                  up   == \/ r > half
                          \/ r = half /\ sticky = 1
                          \/ r = half /\ sticky = 0 /\ q % 2 = 1
                  q1   == IF up THEN q + 1 ELSE q
              IN  IF q1 = Mant
                  THEN [s |-> s, m |-> Half, e |-> e + sh + 1]
                  ELSE [s |-> s, m |-> q1, e |-> e + sh]

\* `n as f32` for an integer -2^24 < n < 2^24 (exact).
FromInt(n) == IF n >= 0 THEN FRound(0, n, 0, 0) ELSE FRound(1, -n, 0, 0)

FNeg(a) == IF a.m = 0 THEN a ELSE [a EXCEPT !.s = 1 - a.s]

\* |a| < |b|
MagLess(a, b) ==
    IF b.m = 0 THEN FALSE
    ELSE IF a.m = 0 THEN TRUE
    ELSE a.e < b.e \/ (a.e = b.e /\ a.m < b.m)

\* a < b
FLess(a, b) ==
    IF a.s = 1 /\ a.m # 0
    THEN IF b.s = 1 /\ b.m # 0 THEN MagLess(b, a) ELSE TRUE
    ELSE IF b.s = 1 /\ b.m # 0 THEN FALSE ELSE MagLess(a, b)

\* a + b in f32.  The larger operand gets three guard bits; the smaller one
\* is shifted right onto its exponent, the bits shifted out kept as a sticky
\* bit.
FAdd(a, b) ==
    IF a.m = 0 THEN b
    ELSE IF b.m = 0 THEN a
    ELSE LET big   == IF MagLess(a, b) THEN b ELSE a
             small == IF MagLess(a, b) THEN a ELSE b
             d     == big.e - small.e
             A     == big.m * 8
             B0    == small.m * 8
             B     == IF d >= 28 THEN 0 ELSE B0 \div 2^d
             lost  == IF d >= 28 THEN 1 ELSE IF B0 % 2^d # 0 THEN 1 ELSE 0
         IN  IF big.s = small.s
             THEN FRound(big.s, A + B, big.e - 3, lost)
             ELSE \* A - (B + lost * fraction): borrow one unit into the sticky bit
                  IF lost = 1
                  THEN FRound(big.s, A - B - 1, big.e - 3, 1)
                  ELSE FRound(big.s, A - B, big.e - 3, 0)

FSub(a, b) == FAdd(a, FNeg(b))

\* a * b in f32: the 48-bit product of the mantissas, in two 24-bit limbs.
FMul(a, b) ==
    IF a.m = 0 \/ b.m = 0 THEN FZero
    ELSE LET a1  == a.m \div 4096
             a0  == a.m % 4096
             b1  == b.m \div 4096
             b0  == b.m % 4096
             mid == a1 * b0 + a0 * b1
             t   == (mid % 4096) * 4096 + a0 * b0
             lo  == t % Mant
             hi  == a1 * b1 + mid \div 4096 + t \div Mant
             s   == IF a.s = b.s THEN 0 ELSE 1
         IN  \* hi * 2^24 + lo is the product; hi has 23 or 24 bits
             FRound(s, hi * 64 + lo \div 2^18, a.e + b.e + 18,
                    IF lo % 2^18 # 0 THEN 1 ELSE 0)

\* f32::clamp(lo, hi)
FClamp(a, lo, hi) == IF FLess(a, lo) THEN lo ELSE IF FLess(hi, a) THEN hi ELSE a

\* `a as u8` for 0 <= a <= 255: truncation toward zero.
ToU8(a) ==
    IF a.m = 0 \/ a.s = 1 THEN 0
    ELSE IF a.e >= 0 THEN 255
    ELSE IF a.e <= -24 THEN 0
    ELSE IF a.m \div 2^(-a.e) > 255 THEN 255
    ELSE a.m \div 2^(-a.e)

(***************************************************************************)
(* The palette and the quantizer.                                          *)
(***************************************************************************)
PALETTE == << <<0, 0, 0>>,          \* Black
              <<255, 255, 255>>,    \* White
              <<255, 255, 0>>,      \* Yellow
              <<255, 0, 0>>,        \* Red
              <<0, 0, 255>>,        \* Blue
              <<0, 255, 0>> >>      \* Green

\* f32::MAX = (2^24 - 1) * 2^104
F32_MAX == [s |-> 0, m |-> Mant - 1, e |-> 104]

\* x.powi(2)
Powi2(x) == FMul(x, x)

\* `c as f32` for the channel values 0..255.
U8AsF32 == [c \in 0..255 |-> FromInt(c)]

\* The squared distance of one iteration of find_closest_color's loop.
ColorDist(rgb, color) ==
    FAdd(FAdd(Powi2(FSub(rgb[1], U8AsF32[color[1]])),
              Powi2(FSub(rgb[2], U8AsF32[color[2]]))),
         Powi2(FSub(rgb[3], U8AsF32[color[3]])))

\* Mutant of ClosestLoop: `dist <= min_dist`, so that the last of several
\* equally near entries wins.
RECURSIVE ClosestLoopLastWins(_, _, _, _)
ClosestLoopLastWins(rgb, i, min_dist, closest) ==
    IF i > Len(PALETTE) THEN closest
    ELSE LET dist == ColorDist(rgb, PALETTE[i]) IN
         IF ~FLess(min_dist, dist)
         THEN ClosestLoopLastWins(rgb, i + 1, dist, PALETTE[i])
         ELSE ClosestLoopLastWins(rgb, i + 1, min_dist, closest)

\* The loop of find_closest_color from palette index i on.
RECURSIVE ClosestLoop(_, _, _, _)
ClosestLoop(rgb, i, min_dist, closest) ==
    IF i > Len(PALETTE) THEN closest
    ELSE LET dist == ColorDist(rgb, PALETTE[i]) IN
         IF FLess(dist, min_dist)
         THEN ClosestLoop(rgb, i + 1, dist, PALETTE[i])
         ELSE ClosestLoop(rgb, i + 1, min_dist, closest)

\* Mutant of find_closest_color: the loop starts at the second entry.
find_closest_color_from_second(rgb) == ClosestLoop(rgb, 2, F32_MAX, PALETTE[1])

\* Mutant of find_closest_color: the loop stops before the last entry.
RECURSIVE ClosestLoopNoLast(_, _, _, _)
ClosestLoopNoLast(rgb, i, min_dist, closest) ==
    IF i > Len(PALETTE) - 1 THEN closest
    ELSE LET dist == ColorDist(rgb, PALETTE[i]) IN
         IF FLess(dist, min_dist)
         THEN ClosestLoopNoLast(rgb, i + 1, dist, PALETTE[i])
         ELSE ClosestLoopNoLast(rgb, i + 1, min_dist, closest)

find_closest_color_no_last(rgb) == ClosestLoopNoLast(rgb, 1, F32_MAX, PALETTE[1])

find_closest_color(rgb) == ClosestLoop(rgb, 1, F32_MAX, PALETTE[1])

(***************************************************************************)
(* Rasters.  A tiny_skia Pixmap is [width, height, pixels]: width and      *)
(* height are at least 1 and pixels is the row-major sequence of           *)
(* premultiplied <<red, green, blue, alpha>> bytes.                        *)
(***************************************************************************)
None == [none |-> TRUE]

\* Pixmap::new(width, height): None for a zero size, else transparent black.
PixmapNew(w, h) ==
    IF w = 0 \/ h = 0 THEN None
    ELSE [width |-> w, height |-> h, pixels |-> [i \in 1..(w * h) |-> <<0, 0, 0, 0>>]]

\* PremultipliedColorU8::demultiply: the pixel itself when opaque, else every
\* channel divided by alpha / 255 and rounded (c / a + 0.5) as u8.
Demultiply(p) ==
    IF p[4] = 255 THEN p
    ELSE IF p[4] = 0 THEN <<0, 0, 0, 0>>
    ELSE LET ch(c) == IF (2 * 255 * c + p[4]) \div (2 * p[4]) > 255 THEN 255
                      ELSE (2 * 255 * c + p[4]) \div (2 * p[4])
         IN  <<ch(p[1]), ch(p[2]), ch(p[3]), p[4]>>

\* ColorU8::from_rgba(r, g, b, 255).premultiply(): an opaque colour is its own
\* premultiplied form.
OpaquePremultiplied(r, g, b) == <<r, g, b, 255>>

RGB(p) == <<p[1], p[2], p[3]>>

(***************************************************************************)
(* apply_floyd_steinberg.                                                  *)
(***************************************************************************)
\* The four diffusion factors n / 16 (7.0 / 16.0, ...), exact in f32.
Sixteenths == [n \in {1, 3, 5, 7} |-> FRound(0, n, -4, 0)]

\* Mutant of distribute_error: the whole error is added, factor is dropped.
distribute_error_unscaled(pixel, err, factor) ==
    [c \in 1..3 |-> FAdd(pixel[c], err[c])]

\* distribute_error(pixel, err, factor)
distribute_error(pixel, err, factor) ==
    [c \in 1..3 |-> FAdd(pixel[c], FMul(err[c], factor))]

\* The conversion of the source pixels to the f32 working buffer.
ToWorkingBuffer(pm) ==
    [i \in 1..(pm.width * pm.height) |->
        <<U8AsF32[pm.pixels[i][1]], U8AsF32[pm.pixels[i][2]], U8AsF32[pm.pixels[i][3]]>>]

\* current_pixel clamped to the RGB range.
ClampRGB(px) == [c \in 1..3 |-> FClamp(px[c], U8AsF32[0], U8AsF32[255])]

\* err = old_rgb - new_rgb
QuantError(old_rgb, new_rgb) == [c \in 1..3 |-> FSub(old_rgb[c], U8AsF32[new_rgb[c]])]

\* distribute_error on data[k] (k counted from 0) when the neighbour exists.
Diffuse(d, exists, k, err, n) ==
    IF exists THEN [d EXCEPT ![k + 1] = distribute_error(@, err, Sixteenths[n])] ELSE d

\* Mutant of DistributeAll: the right neighbour is taken as the next entry
\* of the buffer, without the test x + 1 < width.
DistributeAllWrapping(d, width, height, x, y, err) ==
    Diffuse(
      Diffuse(
        Diffuse(
          Diffuse(d, y * width + x + 1 < Len(d), y * width + x + 1, err, 7),
          y + 1 < height /\ x > 0, (y + 1) * width + x - 1, err, 3),
        y + 1 < height, (y + 1) * width + x, err, 5),
      y + 1 < height /\ x + 1 < width, (y + 1) * width + x + 1, err, 1)

\* The four distribute_error calls of the iteration at (x, y), in the
\* order of the code.
DistributeAll(d, width, height, x, y, err) ==
    Diffuse(
      Diffuse(
        Diffuse(
          Diffuse(d, x + 1 < width, y * width + x + 1, err, 7),
          y + 1 < height /\ x > 0, (y + 1) * width + x - 1, err, 3),
        y + 1 < height, (y + 1) * width + x, err, 5),
      y + 1 < height /\ x + 1 < width, (y + 1) * width + x + 1, err, 1)

\* Mutant of DitherWrite: the quantized colour is not stored in data[idx].
DitherWriteNoStore(d, width, height, x, y, err, new_rgb) ==
    [data |-> DistributeAll(d, width, height, x, y, err), err |-> err]

\* The iteration at idx once old_rgb and new_rgb are known: data[idx] becomes
\* the quantized colour and err is distributed.
DitherWrite(d, width, height, x, y, err, new_rgb) ==
    [data |-> DistributeAll(
                [d EXCEPT ![y * width + x + 1] = [c \in 1..3 |-> U8AsF32[new_rgb[c]]]],
                width, height, x, y, err),
     err  |-> err]

DitherQuantize(d, width, height, x, y, old_rgb, new_rgb) ==
    DitherWrite(d, width, height, x, y, QuantError(old_rgb, new_rgb), new_rgb)

DitherClamped(d, width, height, x, y, old_rgb) ==
    DitherQuantize(d, width, height, x, y, old_rgb, find_closest_color(old_rgb))

\* The body of the loop at (x, y): the working buffer after the iteration,
\* and the iteration's err.
DitherStep(d, width, height, x, y) ==
    DitherClamped(d, width, height, x, y, ClampRGB(d[y * width + x + 1]))

\* The pixels of out_pixmap: each entry clamped, truncated and made opaque.
OutPixels(d) ==
    [i \in 1..Len(d) |->
        OpaquePremultiplied(ToU8(FClamp(d[i][1], U8AsF32[0], U8AsF32[255])),
                            ToU8(FClamp(d[i][2], U8AsF32[0], U8AsF32[255])),
                            ToU8(FClamp(d[i][3], U8AsF32[0], U8AsF32[255])))]

(***************************************************************************)
(* pixmap_to_epd_bin.  The buffer vec![0u8; len] is kept as its length and *)
(* the bytes that the loop has OR-ed into: a byte outside bytes' domain is *)
(* still 0.                                                                *)
(***************************************************************************)
TARGET_W == 1200
TARGET_H == 1600
HALF_W == TARGET_W \div 2

\* Mutant of EpdBufferLen: one byte for every pixel.
EpdBufferLenBytePerPixel == TARGET_W * TARGET_H

\* buffer.len() of vec![0u8; TARGET_W * TARGET_H / 2]
EpdBufferLen == (TARGET_W * TARGET_H) \div 2

\* Mutant of get_epd_color: the codes are numbered without a gap.
get_epd_color_contiguous(rgb) ==
    IF rgb = <<0, 0, 0>> THEN 0
    ELSE IF rgb = <<255, 255, 255>> THEN 1
    ELSE IF rgb = <<255, 255, 0>> THEN 2
    ELSE IF rgb = <<255, 0, 0>> THEN 3
    ELSE IF rgb = <<0, 0, 255>> THEN 4
    ELSE IF rgb = <<0, 255, 0>> THEN 5
    ELSE 1

get_epd_color(rgb) ==
    IF rgb = <<0, 0, 0>> THEN 0            \* BLACK
    ELSE IF rgb = <<255, 255, 255>> THEN 1 \* WHITE
    ELSE IF rgb = <<255, 255, 0>> THEN 2   \* YELLOW
    ELSE IF rgb = <<255, 0, 0>> THEN 3     \* RED
    ELSE IF rgb = <<0, 0, 255>> THEN 5     \* BLUE
    ELSE IF rgb = <<0, 255, 0>> THEN 6     \* GREEN
    ELSE 1                                 \* Default to WHITE

\* a.saturating_sub(b) on usize
SaturatingSub(a, b) == IF a >= b THEN a - b ELSE 0

\* a | b on u8
RECURSIVE BitOr(_, _)
BitOr(a, b) ==
    IF a = 0 THEN b
    ELSE IF b = 0 THEN a
    ELSE (IF a % 2 = 1 \/ b % 2 = 1 THEN 1 ELSE 0) + 2 * BitOr(a \div 2, b \div 2)

\* Mutant of EpdBytePos: the right half is not moved to the second half of
\* the buffer.
EpdBytePosOneStrip(x_new, y_new, half_buffer_len) ==
    LET tx        == IF x_new < HALF_W THEN x_new ELSE x_new - HALF_W
        pixel_idx == tx + y_new * HALF_W
    IN  pixel_idx \div 2

\* Mutant of EpdBytePos: the strips split at `x_new <= HALF_W`.
EpdBytePosSplitLate(x_new, y_new, half_buffer_len) ==
    LET tx        == IF x_new <= HALF_W THEN x_new ELSE x_new - HALF_W
        offset    == IF x_new <= HALF_W THEN 0 ELSE half_buffer_len
        pixel_idx == tx + y_new * HALF_W
    IN  offset + pixel_idx \div 2

\* Mutant of EpdBytePos: the second strip starts at buffer.len().
EpdBytePosFullOffset(x_new, y_new, half_buffer_len) ==
    LET tx        == IF x_new < HALF_W THEN x_new ELSE x_new - HALF_W
        offset    == IF x_new < HALF_W THEN 0 ELSE 2 * half_buffer_len
        pixel_idx == tx + y_new * HALF_W
    IN  offset + pixel_idx \div 2

\* The byte that the iteration (x_new, y_new) indexes.
EpdBytePos(x_new, y_new, half_buffer_len) ==
    LET tx        == IF x_new < HALF_W THEN x_new ELSE x_new - HALF_W
        offset    == IF x_new < HALF_W THEN 0 ELSE half_buffer_len
        pixel_idx == tx + y_new * HALF_W
    IN  offset + pixel_idx \div 2

\* Mutant of EpdOperand: the odd pixel_idx gets the high nibble.
EpdOperandOddHigh(x_new, y_new, color) ==
    LET tx        == IF x_new < HALF_W THEN x_new ELSE x_new - HALF_W
        pixel_idx == tx + y_new * HALF_W
    IN  IF pixel_idx % 2 = 1 THEN (color * 16) % 256 ELSE color

\* The value that the iteration (x_new, y_new) ORs into that byte.
EpdOperand(x_new, y_new, color) ==
    LET tx        == IF x_new < HALF_W THEN x_new ELSE x_new - HALF_W
        pixel_idx == tx + y_new * HALF_W
    IN  IF pixel_idx % 2 = 0 THEN (color * 16) % 256 ELSE color

\* Mutant of EpdYOld: the row is not counted from the bottom.
EpdYOldNoFlip(src_h, x_new) == x_new

\* The source row that the iteration x_new reads.
EpdYOld(src_h, x_new) == SaturatingSub(src_h - 1, x_new)

\* p_idx of the iteration (x_new, y_new).
EpdPIdx(pm, x_new, y_new) == EpdYOld(pm.height, x_new) * pm.width + y_new

\* The body of the loop at (x_new, y_new): the OR it performs, as a function
\* from the byte position to the operand, or the empty function when the
\* bounds check skips the iteration.
EpdIteration(pm, x_new, y_new, half_buffer_len) ==
    LET x_old == y_new
        y_old == EpdYOld(pm.height, x_new)
    IN  IF x_old < pm.width /\ y_old < pm.height
        THEN LET p     == Demultiply(pm.pixels[y_old * pm.width + x_old + 1])
                 color == get_epd_color(RGB(p))
             IN  EpdBytePos(x_new, y_new, half_buffer_len)
                    :> EpdOperand(x_new, y_new, color)
        ELSE << >>

\* Two runs of ORs into the zeroed buffer, combined: a byte that both runs
\* touch holds the OR of the two, any other byte what its run left there.
OrInto(f, g) ==
    [b \in DOMAIN f \cap DOMAIN g |-> BitOr(f[b], g[b])] @@ f @@ g

\* The inner loop over x_new in lo..hi of row y_new.  OR is associative, so
\* the iterations are combined pairwise instead of one after the other.
RECURSIVE EpdRow(_, _, _, _, _)
EpdRow(pm, y_new, lo, hi, half_buffer_len) ==
    IF lo = hi THEN EpdIteration(pm, lo, y_new, half_buffer_len)
    ELSE LET mid == (lo + hi) \div 2 IN
         OrInto(EpdRow(pm, y_new, lo, mid, half_buffer_len),
                EpdRow(pm, y_new, mid + 1, hi, half_buffer_len))

\* The outer loop over y_new in lo..hi.  x_old = y_new does not depend on
\* x_new: a row with x_old >= src_w has no iteration that passes the bounds
\* check.
RECURSIVE EpdRows(_, _, _, _)
EpdRows(pm, lo, hi, half_buffer_len) ==
    IF lo = hi
    THEN IF lo < pm.width THEN EpdRow(pm, lo, 0, TARGET_W - 1, half_buffer_len)
         ELSE << >>
    ELSE LET mid == (lo + hi) \div 2 IN
         OrInto(EpdRows(pm, lo, mid, half_buffer_len),
                EpdRows(pm, mid + 1, hi, half_buffer_len))

\* pixmap_to_epd_bin(pixmap): the returned buffer, or a panic when an
\* iteration indexed the buffer out of bounds.
pixmap_to_epd_bin(pm) ==
    LET len   == EpdBufferLen
        bytes == EpdRows(pm, 0, TARGET_H - 1, len \div 2)
    IN  IF \A b \in DOMAIN bytes : b < len
        THEN [panic |-> FALSE, len |-> len, bytes |-> bytes]
        ELSE [panic |-> TRUE, len |-> len, bytes |-> << >>]

\* buffer[i]
ByteAt(buf, i) == IF i \in DOMAIN buf.bytes THEN buf.bytes[i] ELSE 0

(***************************************************************************)
(* The inputs of the model.                                                *)
(***************************************************************************)
\* The sizes W x H of a raster: at least 1 x 1, at most MaxPixels pixels.
Shapes == {sz \in (1..MaxPixels) \X (1..MaxPixels) : sz[1] * sz[2] <= MaxPixels}

\* The sizes of the rasters of the transcoder.
PackShapes == (1..MaxSide) \X (1..MaxSide)

\* What `tree.size() as u32` can be: a side below one pixel truncates to 0.
Sizes == (0..MaxSide) \X (0..MaxSide)

\* Source pixels of the ditherer: Black, White, two greys and an
\* off-palette colour.
DitherColours ==
    { <<0, 0, 0, 255>>, <<255, 255, 255, 255>>,
      <<10, 10, 10, 255>>, <<128, 128, 128, 255>>, <<200, 100, 50, 255>> }

\* Source pixels of the transcoder: the six palette colours, off-palette
\* colours, and translucent pixels (premultiplied: no channel above alpha).
PackColours ==
    << <<0, 0, 0, 255>>, <<255, 255, 255, 255>>, <<255, 255, 0, 255>>,
       <<255, 0, 0, 255>>, <<0, 0, 255, 255>>, <<0, 255, 0, 255>>,
       <<10, 10, 10, 255>>, <<0, 0, 0, 0>>, <<128, 128, 128, 128>>,
       <<50, 0, 0, 200>> >>

\* Pixel sequences that walk through PackColours from seed in steps of stride.
Strides == {1, 9}
PatternPixels(n, seed, stride) ==
    [i \in 1..n |-> PackColours[((seed + (i - 1) * stride) % Len(PackColours)) + 1]]

PatternRasters ==
    { [width |-> sz[1], height |-> sz[2],
       pixels |-> PatternPixels(sz[1] * sz[2], seed, stride)] :
      sz \in PackShapes, seed \in 0..(Len(PackColours) - 1), stride \in Strides }

\* The six palette colours as opaque pixels.
PalettePixels == { <<PALETTE[i][1], PALETTE[i][2], PALETTE[i][3], 255>> : i \in 1..Len(PALETTE) }

\* Every raster over DitherColours, and every raster of one colour that is a
\* palette colour or the transparent black of a fresh Pixmap.
DitherRasters ==
    UNION { { [width |-> sz[1], height |-> sz[2], pixels |-> px] :
              px \in [1..(sz[1] * sz[2]) -> DitherColours] } : sz \in Shapes }
    \cup { [width |-> sz[1], height |-> sz[2],
            pixels |-> [i \in 1..(sz[1] * sz[2]) |-> p]] :
           sz \in Shapes, p \in PalettePixels \cup { <<0, 0, 0, 0>> } }

\* The destination columns and rows at which single iterations are taken.
EdgeColumns ==
    (0..EdgeMargin) \cup ((HALF_W - 1 - EdgeMargin)..(HALF_W + EdgeMargin))
    \cup ((TARGET_W - 1 - EdgeMargin)..(TARGET_W - 1))
EdgeRows == (0..EdgeMargin) \cup ((TARGET_H - 1 - EdgeMargin)..(TARGET_H - 1))

\* Sources of single iterations: small ones, the panel's native 1600 x 1200,
\* the transposed 1200 x 1600 and the larger 2000 x 3000.
IterationSizes ==
    { <<1, 1>>, <<2, 1>>, <<1, 2>>, <<2, 2>>,
      <<1600, 1200>>, <<1200, 1600>>, <<2000, 3000>> }

\* The rows of a source of height src_h that the iterations at EdgeColumns
\* can read, counted from the bottom or from the top.
WindowRows(src_h) ==
    {y \in {SaturatingSub(src_h - 1, x) : x \in EdgeColumns} \cup EdgeColumns :
        y < src_h}

\* A raster of a size whose pixels walk through PackColours, given by its
\* pixels in the columns EdgeRows and the rows WindowRows: the part of the
\* raster within reach of the iterations that are taken.
RasterWindow(sz, seed, stride) ==
    [width |-> sz[1], height |-> sz[2],
     pixels |->
        [i \in {y * sz[1] + x + 1 : x \in {c \in EdgeRows : c < sz[1]},
                                     y \in WindowRows(sz[2])} |->
            PackColours[((seed + (i - 1) * stride) % Len(PackColours)) + 1]]]

\* Grey levels of the one-colour rasters: the near-black 10, and 40.
GreyLevels == {10, 40}

\* Opaque rasters of one grey, of every shape up to MaxUniformSide a side.
UniformRasters ==
    { [width |-> w, height |-> h,
       pixels |-> [i \in 1..(w * h) |-> <<g, g, g, 255>>]] :
      w \in 1..MaxUniformSide, h \in 1..MaxUniformSide, g \in GreyLevels }

\* Channel values handed to the quantizer: integers, the midpoint 127.5 and
\* its two f32 neighbours at 2^-17, and values outside 0..255.
Channels ==
    { U8AsF32[0], U8AsF32[100], U8AsF32[128], U8AsF32[255],
      FRound(0, 255, -1, 0),
      FRound(0, 255 * 2^16 + 1, -17, 0), FRound(0, 255 * 2^16 - 1, -17, 0),
      FromInt(-20), FromInt(300) }

(***************************************************************************)
(* render_svg.  A text is a sequence of pieces: a character of a field, or *)
(* a stretch of the literal text of the format string.                     *)
(***************************************************************************)
\* Option<String>: None, or Some(v).
Some(v) == [some |-> v]

\* as_deref().unwrap_or(default)
UnwrapOr(o, default) == IF o = None THEN default ELSE o.some

\* callsign, or "Unknown" when it is empty.
CallsignText(f) == IF f.callsign = << >> THEN << "Unknown" >> ELSE f.callsign

\* Mutant of image_layer: the photo is left out.
image_layer_empty(f) == << >>

\* image_layer: the <image> element when photo_data is not empty.
image_layer(f) ==
    IF UnwrapOr(f.photo_base64, << >>) # << >>
    THEN << "<image id=\"bg\" href=\"" >> \o UnwrapOr(f.photo_base64, << >>)
         \o << "\" width=\"1600\" height=\"1200\" preserveAspectRatio=\"xMidYMid meet\" />" >>
    ELSE << >>

\* render_svg(flight): the format string with its eight arguments filled in.
render_svg(f) ==
    << "<svg><rect/>" >> \o image_layer(f)
    \o << "<rect/><rect/><g><g><text>" >> \o UnwrapOr(f.origin_iata, << "???" >>)
    \o << "</text><text>" >> \o UnwrapOr(f.origin_name, << "Unknown Origin" >>)
    \o << "</text></g><text>-></text><g><text>" >> \o UnwrapOr(f.dest_iata, << "???" >>)
    \o << "</text><text>" >> \o UnwrapOr(f.dest_name, << "Unknown Destination" >>)
    \o << "</text></g></g><g><g><text>CALLSIGN</text><text>" >> \o CallsignText(f)
    \o << "</text></g><g><text>FLIGHT</text><text>" >>
    \o UnwrapOr(f.flight_number, << "---" >>)
    \o << "</text></g><g><text>AIRCRAFT TYPE</text><text>" >>
    \o UnwrapOr(f.aircraft_type, << "Unknown" >>)
    \o << "</text></g></g></svg>" >>

\* The flights handed to render_svg: every optional field absent or
\* present, the callsign empty or not, the photo also present and empty.
Flights ==
    [ callsign      : { << >>, << "T", "E", "S", "T", "1", "2", "3" >> },
      flight_number : { None, Some(<< "L", "X", "1", "2", "3" >>) },
      aircraft_type : { None, Some(<< "A", "3", "2", "0" >>) },
      photo_base64  : { None, Some(<< >>), Some(<< "d", "a", "t", "a", ":", "V", "E", "V", "T", "V", "A", "=", "=" >>) },
      origin_iata   : { None, Some(<< "W", "A", "W" >>) },
      origin_name   : { None, Some(<< "W", "a", "r", "s", "a", "w" >>) },
      dest_iata     : { None, Some(<< "Z", "R", "H" >>) },
      dest_name     : { None, Some(<< "Z", "u", "r", "i", "c", "h" >>) } ]

(***************************************************************************)
(* The state machine.                                                      *)
(***************************************************************************)
VARIABLES
    entry,      \* the function that was called
    pc,         \* where the call is
    size,       \* svg entries: <<width, height>> of the rendered tree
    pixmap,     \* the source raster
    data,       \* apply_floyd_steinberg: the f32 working buffer
    pos,        \* apply_floyd_steinberg: y * width + x of the next iteration
    err,        \* apply_floyd_steinberg: err of the last iteration
    dithered,   \* the raster apply_floyd_steinberg returned
    buffer,     \* the buffer pixmap_to_epd_bin returned
    rgb,        \* find_closest_color: the argument
    closest,    \* find_closest_color: the result
    flight,     \* render_svg: the argument
    svg,        \* render_svg: the text returned
    iteration   \* pixmap_to_epd_bin: one iteration of the loop on its own

vars == <<entry, pc, size, pixmap, data, pos, err, dithered, buffer, rgb, closest,
          flight, svg, iteration>>

\* find_closest_color(rgb) is called.
InitNearest ==
    /\ entry = "find_closest_color"
    /\ pc = "call"
    /\ rgb \in Channels \X Channels \X Channels
    /\ closest = << >>
    /\ size = <<0, 0>>
    /\ pixmap = None
    /\ data = << >>
    /\ pos = 0
    /\ err = << >>
    /\ dithered = None
    /\ buffer = None
    /\ flight = None
    /\ svg = << >>
    /\ iteration = None

\* apply_floyd_steinberg(pixmap) is called.
InitDither ==
    /\ entry = "apply_floyd_steinberg"
    /\ pc = "dither"
    /\ pixmap \in DitherRasters
    /\ size = <<0, 0>>
    /\ data = << >>
    /\ pos = 0
    /\ err = << >>
    /\ dithered = None
    /\ buffer = None
    /\ rgb = << >>
    /\ closest = << >>
    /\ flight = None
    /\ svg = << >>
    /\ iteration = None

\* apply_floyd_steinberg(pixmap) is called on a raster of one grey.
InitUniform ==
    /\ entry = "apply_floyd_steinberg"
    /\ pc = "dither"
    /\ pixmap \in UniformRasters
    /\ size = <<0, 0>>
    /\ data = << >>
    /\ pos = 0
    /\ err = << >>
    /\ dithered = None
    /\ buffer = None
    /\ rgb = << >>
    /\ closest = << >>
    /\ flight = None
    /\ svg = << >>
    /\ iteration = None

\* pixmap_to_epd_bin(pixmap) is called.
InitPack ==
    /\ entry = "pixmap_to_epd_bin"
    /\ pc = "pack"
    /\ pixmap \in PatternRasters
    /\ size = <<0, 0>>
    /\ data = << >>
    /\ pos = 0
    /\ err = << >>
    /\ dithered = None
    /\ buffer = None
    /\ rgb = << >>
    /\ closest = << >>
    /\ flight = None
    /\ svg = << >>
    /\ iteration = None

\* svg_to_dithered_png or svg_to_epd_bin is called on a tree of some size.
InitSvg ==
    /\ entry \in {"svg_to_dithered_png", "svg_to_epd_bin"}
    /\ pc = "render"
    /\ size \in Sizes
    /\ pixmap = None
    /\ data = << >>
    /\ pos = 0
    /\ err = << >>
    /\ dithered = None
    /\ buffer = None
    /\ rgb = << >>
    /\ closest = << >>
    /\ flight = None
    /\ svg = << >>
    /\ iteration = None

\* render_svg(flight) is called.
InitRender ==
    /\ entry = "render_svg"
    /\ pc = "format"
    /\ flight \in Flights
    /\ svg = << >>
    /\ size = <<0, 0>>
    /\ pixmap = None
    /\ data = << >>
    /\ pos = 0
    /\ err = << >>
    /\ dithered = None
    /\ buffer = None
    /\ rgb = << >>
    /\ closest = << >>
    /\ iteration = None

\* pixmap_to_epd_bin(pixmap) has reached the iteration (x_new, y_new).
InitIteration ==
    /\ entry = "pixmap_to_epd_bin"
    /\ pc = "loop"
    /\ iteration \in
          [width : {sz[1] : sz \in IterationSizes},
           height : {sz[2] : sz \in IterationSizes},
           seed : {0, 3}, stride : Strides,
           x_new : EdgeColumns, y_new : EdgeRows, write : { << >> }]
    /\ <<iteration.width, iteration.height>> \in IterationSizes
    /\ size = <<0, 0>>
    /\ pixmap = None
    /\ data = << >>
    /\ pos = 0
    /\ err = << >>
    /\ dithered = None
    /\ buffer = None
    /\ rgb = << >>
    /\ closest = << >>
    /\ flight = None
    /\ svg = << >>

\* find_closest_color returns.
Quantize ==
    /\ pc = "call"
    /\ closest' = find_closest_color(rgb)
    /\ pc' = "done"
    /\ UNCHANGED <<entry, size, pixmap, data, pos, err, dithered, buffer, rgb,
                 flight, svg, iteration>>

\* Pixmap::new(width, height).unwrap() on a zero size.
RenderPanic ==
    /\ pc = "render"
    /\ PixmapNew(size[1], size[2]) = None
    /\ pc' = "panic"
    /\ UNCHANGED <<entry, size, pixmap, data, pos, err, dithered, buffer, rgb, closest,
                 flight, svg, iteration>>

\* Pixmap::new(width, height).unwrap() and resvg::render, which fills the
\* pixels; apply_floyd_steinberg is called on the result.
Render ==
    /\ pc = "render"
    /\ PixmapNew(size[1], size[2]) # None
    /\ \E seed \in 0..(Len(PackColours) - 1), stride \in Strides :
          pixmap' = [PixmapNew(size[1], size[2]) EXCEPT
                        !.pixels = PatternPixels(size[1] * size[2], seed, stride)]
    /\ pc' = "dither"
    /\ UNCHANGED <<entry, size, data, pos, err, dithered, buffer, rgb, closest,
                 flight, svg, iteration>>

\* apply_floyd_steinberg: the conversion to f32, before the loop.
DitherBegin ==
    /\ pc = "dither"
    /\ data' = ToWorkingBuffer(pixmap)
    /\ pos' = 0
    /\ pc' = "scan"
    /\ UNCHANGED <<entry, size, pixmap, err, dithered, buffer, rgb, closest,
                 flight, svg, iteration>>

\* apply_floyd_steinberg: one iteration of the loop, in row-major order.
DitherPixel ==
    /\ pc = "scan"
    /\ pos < pixmap.width * pixmap.height
    /\ LET step == DitherStep(data, pixmap.width, pixmap.height,
                              pos % pixmap.width, pos \div pixmap.width)
       IN  /\ data' = step.data
           /\ err' = step.err
    /\ pos' = pos + 1
    /\ UNCHANGED <<entry, pc, size, pixmap, dithered, buffer, rgb, closest,
                 flight, svg, iteration>>

\* apply_floyd_steinberg: after the loop, out_pixmap is built and returned.
\* svg_to_epd_bin hands it to pixmap_to_epd_bin.
DitherEnd ==
    /\ pc = "scan"
    /\ pos = pixmap.width * pixmap.height
    /\ LET out_pixmap == PixmapNew(pixmap.width, pixmap.height) IN
       IF out_pixmap = None
       THEN /\ pc' = "panic"
            /\ UNCHANGED dithered
       ELSE /\ dithered' = [out_pixmap EXCEPT !.pixels = OutPixels(data)]
            /\ pc' = IF entry = "svg_to_epd_bin" THEN "pack" ELSE "done"
    /\ UNCHANGED <<entry, size, pixmap, data, pos, err, buffer, rgb, closest,
                 flight, svg, iteration>>

\* The raster that pixmap_to_epd_bin is called on.
PackSource == IF entry = "svg_to_epd_bin" THEN dithered ELSE pixmap

\* pixmap_to_epd_bin runs and returns the buffer.
Pack ==
    /\ pc = "pack"
    /\ LET res == pixmap_to_epd_bin(PackSource) IN
       IF res.panic
       THEN /\ pc' = "panic"
            /\ UNCHANGED buffer
       ELSE /\ buffer' = [len |-> res.len, bytes |-> res.bytes]
            /\ pc' = "done"
    /\ UNCHANGED <<entry, size, pixmap, data, pos, err, dithered, rgb, closest,
                 flight, svg, iteration>>

\* render_svg returns.
RenderSvg ==
    /\ pc = "format"
    /\ svg' = render_svg(flight)
    /\ pc' = "done"
    /\ UNCHANGED <<entry, size, pixmap, data, pos, err, dithered, buffer, rgb, closest,
                 flight, iteration>>

\* pixmap_to_epd_bin: the iteration (x_new, y_new) of the loop, on its own.
PackIteration ==
    /\ pc = "loop"
    /\ iteration' =
          [iteration EXCEPT
             !.write = EpdIteration(
                          RasterWindow(<<iteration.width, iteration.height>>,
                                       iteration.seed, iteration.stride),
                          iteration.x_new, iteration.y_new, EpdBufferLen \div 2)]
    /\ pc' = "looped"
    /\ UNCHANGED <<entry, size, pixmap, data, pos, err, dithered, buffer, rgb, closest,
                 flight, svg>>

NextNearest == Quantize
NextDither == DitherBegin \/ DitherPixel \/ DitherEnd
NextPack == Pack
NextRender == RenderSvg
NextIteration == PackIteration
NextPackLoop == Pack \/ PackIteration
NextSvg == RenderPanic \/ Render \/ DitherBegin \/ DitherPixel \/ DitherEnd \/ Pack

SpecNearest == InitNearest /\ [][NextNearest]_vars
SpecDither == InitDither /\ [][NextDither]_vars
SpecUniform == InitUniform /\ [][NextDither]_vars
SpecDiffusion == (InitDither \/ InitUniform) /\ [][NextDither]_vars
SpecPack == InitPack /\ [][NextPack]_vars
SpecRender == InitRender /\ [][NextRender]_vars
SpecIteration == InitIteration /\ [][NextIteration]_vars
SpecPackLoop == (InitPack \/ InitIteration) /\ [][NextPackLoop]_vars
SpecSvg == (InitSvg \/ InitPack) /\ [][NextSvg]_vars

(***************************************************************************)
(* The claims.                                                             *)
(***************************************************************************)
\* The six palette colours, as the specification lists them.
SixColours ==
    { <<0, 0, 0>>, <<255, 255, 255>>, <<255, 255, 0>>,
      <<255, 0, 0>>, <<0, 0, 255>>, <<0, 255, 0>> }

\* C1: every pixel of the raster that apply_floyd_steinberg returns is one
\* of the six palette colours, and the raster has the width and the height
\* of the source, for every source of at least 1 x 1.
C1_OutputInPalette ==
    dithered # None =>
        /\ dithered.width = pixmap.width
        /\ dithered.height = pixmap.height
        /\ Len(dithered.pixels) = pixmap.width * pixmap.height
        /\ \A i \in 1..Len(dithered.pixels) : RGB(dithered.pixels[i]) \in SixColours

\* A 2 x 2 source with an off-palette pixel has been dithered, and a pixel
\* of the result differs from the source.
C1_Witness ==
    /\ dithered # None
    /\ pixmap.width = 2 /\ pixmap.height = 2
    /\ \E i \in 1..4 : RGB(pixmap.pixels[i]) = <<200, 100, 50>>
    /\ \E i \in 1..4 : RGB(dithered.pixels[i]) # RGB(pixmap.pixels[i])

\* The source raster has one colour, and it is a palette colour.
UniformPalette ==
    /\ pixmap # None
    /\ RGB(pixmap.pixels[1]) \in SixColours
    /\ \A i \in 1..Len(pixmap.pixels) : RGB(pixmap.pixels[i]) = RGB(pixmap.pixels[1])

\* C10: on a source raster of one palette colour every iteration of the
\* ditherer computes err = 0, no entry of the working buffer ever changes
\* (nothing is diffused), and the returned raster has the colours of the
\* source.
C10_UniformPaletteIsFixed ==
    (entry = "apply_floyd_steinberg" /\ UniformPalette) =>
        /\ pc = "scan" =>
              /\ pos > 0 => err = <<FZero, FZero, FZero>>
              /\ \A i \in 1..Len(data) : \A c \in 1..3 :
                    data[i][c] = FromInt(pixmap.pixels[i][c])
        /\ dithered # None =>
              /\ dithered.width = pixmap.width /\ dithered.height = pixmap.height
              /\ \A i \in 1..Len(pixmap.pixels) :
                    RGB(dithered.pixels[i]) = RGB(pixmap.pixels[i])

\* A 2 x 2 raster of Black only has been dithered.
C10_Witness ==
    /\ dithered # None
    /\ pixmap.width = 2 /\ pixmap.height = 2
    /\ \A i \in 1..4 : pixmap.pixels[i] = <<0, 0, 0, 255>>
    /\ err = <<FZero, FZero, FZero>>

\* rgb is colour c, every channel converted to f32.
IsColour(v, c) == v = <<FromInt(c[1]), FromInt(c[2]), FromInt(c[3])>>

\* C6: find_closest_color returns one of the six palette colours for every
\* input, and returns c itself when the input is the palette colour c.
C6_PaletteFixedPoints ==
    pc = "done" /\ entry = "find_closest_color" =>
        /\ closest \in SixColours
        /\ \A c \in SixColours : IsColour(rgb, c) => closest = c

\* The quantizer has returned Green for Green, and for an input outside
\* 0..255 a palette colour.
C6_Witness ==
    /\ pc = "done" /\ entry = "find_closest_color"
    /\ IsColour(rgb, <<0, 255, 0>>)
    /\ closest = <<0, 255, 0>>

\* The exact value of the f32 v, in units of 2^-17 (every channel of the
\* model's inputs is a multiple of 2^-17).
Fixed17(v) ==
    LET mag == IF v.e >= -17 THEN v.m * 2^(v.e + 17) ELSE v.m \div 2^(-17 - v.e)
    IN  IF v.s = 1 THEN -mag ELSE mag

\* Sign(D(p) - D(q)) for the exact squared distances D of v to the palette
\* colours p and q:  (x - p)^2 - (x - q)^2 = (q - p) * (2x - p - q)  in every
\* channel, and q - p is -255, 0 or 255.  The value is
\* (D(p) - D(q)) * 2^17 / 255.
ExactDistDiff(v, p, q) ==
    LET term(c) == IF q[c] = p[c] THEN 0
                   ELSE IF q[c] > p[c]
                        THEN 2 * Fixed17(v[c]) - (p[c] + q[c]) * 2^17
                        ELSE (p[c] + q[c]) * 2^17 - 2 * Fixed17(v[c])
    IN  term(1) + term(2) + term(3)

\* The place of colour c in PALETTE.
PaletteIndex(c) == CHOOSE i \in 1..Len(PALETTE) : PALETTE[i] = c

\* C7 as stated: the returned entry has the least exact squared Euclidean
\* distance to the input, and among the entries at that distance it is the
\* first in the order Black, White, Yellow, Red, Blue, Green.
C7_ExactNearest ==
    pc = "done" /\ entry = "find_closest_color" =>
        \A j \in 1..Len(PALETTE) :
            /\ ExactDistDiff(rgb, closest, PALETTE[j]) <= 0
            /\ ExactDistDiff(rgb, closest, PALETTE[j]) = 0 => PaletteIndex(closest) <= j

\* Every channel of v is a whole number.
WholeChannels(v) == \A c \in 1..3 : Fixed17(v[c]) % 2^17 = 0

\* C7, amended: the returned entry has the least squared distance as the
\* code computes it in f32 (each square and each sum rounded), and among the
\* entries with that f32 distance it is the first in palette order; when
\* every channel of the input is a whole number the f32 distance is exact,
\* and the entry is the exact nearest one, ties to the first.
C7_NearestInF32 ==
    pc = "done" /\ entry = "find_closest_color" =>
        \A j \in 1..Len(PALETTE) :
            /\ ~FLess(ColorDist(rgb, PALETTE[j]), ColorDist(rgb, closest))
            /\ ColorDist(rgb, PALETTE[j]) = ColorDist(rgb, closest)
                  => PaletteIndex(closest) <= j
            /\ WholeChannels(rgb) =>
                  /\ ExactDistDiff(rgb, closest, PALETTE[j]) <= 0
                  /\ ExactDistDiff(rgb, closest, PALETTE[j]) = 0
                        => PaletteIndex(closest) <= j

\* The quantizer has returned Black for (127.5, 127.5, 127.5), which is at
\* the same distance from all six entries.
C7_Witness ==
    /\ pc = "done" /\ entry = "find_closest_color"
    /\ rgb = <<FRound(0, 255, -1, 0), FRound(0, 255, -1, 0), FRound(0, 255, -1, 0)>>
    /\ \A j \in 1..Len(PALETTE) : ExactDistDiff(rgb, PALETTE[1], PALETTE[j]) = 0
    /\ closest = <<0, 0, 0>>

(***************************************************************************)
(* Claims about pixmap_to_epd_bin.                                         *)
(***************************************************************************)
\* C2 as stated: the returned buffer has exactly 900,000 bytes.
C2_Len900000 == buffer # None => buffer.len = 900000

\* C2, amended: the returned buffer has exactly 960,000 bytes
\* (1200 * 1600 / 2) whatever the size of the source, and no call fails.
C2_Len960000 ==
    /\ pc # "panic"
    /\ buffer # None => buffer.len = 960000

\* The buffer of a 2 x 2 source has been returned.
C2_Witness ==
    /\ buffer # None
    /\ buffer.len = 960000
    /\ pixmap.width = 2 /\ pixmap.height = 2

\* The destination rows that can be written: x_old = y_new is inside the
\* source.
RowsOf(pm) == {y \in 0..(TARGET_H - 1) : y < pm.width}

\* The iteration (x_new, y_new) passes the bounds check of the code.
Passes(pm, x_new, y_new) ==
    y_new < pm.width /\ EpdYOld(pm.height, x_new) < pm.height

\* The code of the source pixel that the iteration (x_new, y_new) reads.
CodeRead(pm, x_new, y_new) ==
    get_epd_color(RGB(Demultiply(
        pm.pixels[EpdYOld(pm.height, x_new) * pm.width + y_new + 1])))

\* The slot of destination (x_new, y_new) as the specification lays it out.
SlotOf(x_new, y_new, len) ==
    LET strip       == IF x_new < 600 THEN 0 ELSE 1
        local_x     == IF x_new < 600 THEN x_new ELSE x_new - 600
        pixel_index == local_x + y_new * 600
    IN  [byte |-> strip * (len \div 2) + pixel_index \div 2,
         high |-> pixel_index % 2 = 0]

\* The nibble of the buffer in a slot.
NibbleAt(buf, slot) ==
    IF slot.high THEN ByteAt(buf, slot.byte) \div 16 ELSE ByteAt(buf, slot.byte) % 16

\* C3: the code of every destination (x_new, y_new) that the loop writes is
\* in strip 0 (offset 0, local_x = x_new) when x_new < 600 and in strip 1
\* (offset len / 2, local_x = x_new - 600) otherwise, in byte
\* offset + pixel_index div 2 with pixel_index = local_x + y_new * 600, in the
\* high nibble when pixel_index is even and in the low nibble when it is odd.
C3_StripAndNibble ==
    buffer # None =>
        \A y \in RowsOf(PackSource) : \A x \in 0..(TARGET_W - 1) :
            Passes(PackSource, x, y) =>
                NibbleAt(buffer, SlotOf(x, y, buffer.len)) = CodeRead(PackSource, x, y)

\* A buffer in which x_new = 599 sits in the last slot of row 0 of strip 0
\* (byte 299, low nibble) and x_new = 600 in the first slot of strip 1
\* (byte 480000, high nibble), written from a source pixel that is not Black.
C3_Witness ==
    /\ buffer # None
    /\ CodeRead(PackSource, 599, 0) # 0
    /\ SlotOf(599, 0, buffer.len) = [byte |-> 299, high |-> FALSE]
    /\ SlotOf(600, 0, buffer.len) = [byte |-> 480000, high |-> TRUE]
    /\ ByteAt(buffer, 299) % 16 = CodeRead(PackSource, 599, 0)
    /\ ByteAt(buffer, 480000) \div 16 = CodeRead(PackSource, 600, 0)

\* The source rotated by 90 degrees clockwise reaches destination
\* (x_new, y_new): x_old = y_new and y_old = src_h - 1 - x_new are inside the
\* source.
Reached(pm, x_new, y_new) == y_new < pm.width /\ x_new <= pm.height - 1

\* C4: every destination that the rotated source does not reach is never
\* written: its nibble is 0 in the returned buffer.
C4_UnreachedStaysBlack ==
    buffer # None =>
        \A y \in 0..(TARGET_H - 1) : \A x \in 0..(TARGET_W - 1) :
            ~Reached(PackSource, x, y) =>
                NibbleAt(buffer, SlotOf(x, y, buffer.len)) = 0

Black == <<0, 0, 0, 255>>
White == <<255, 255, 255, 255>>

\* C8 as stated: for a source of width 2 and height 1 whose pixels are Black
\* and White, one byte of the buffer holds both pixels and is 0x01 or 0x10.
C8_TwoByOne ==
    (/\ buffer # None
     /\ pixmap.width = 2 /\ pixmap.height = 1
     /\ pixmap.pixels \in {<<Black, White>>, <<White, Black>>})
        => \E b \in DOMAIN buffer.bytes : ByteAt(buffer, b) \in {1, 16}

\* C8, amended: for a source of width 1 and height 2 the two pixels share
\* byte 0: the lower pixel (0, 1) is at x_new = 0, pixel_index 0, the high
\* nibble, and the upper pixel (0, 0) at x_new = 1, pixel_index 1, the low
\* nibble.  Byte 0 is 0x10 for Black over White and 0x01 for White over Black.
C8_OneByTwo ==
    (/\ buffer # None
     /\ pixmap.width = 1 /\ pixmap.height = 2)
        => /\ pixmap.pixels = <<Black, White>> => ByteAt(buffer, 0) = 16
           /\ pixmap.pixels = <<White, Black>> => ByteAt(buffer, 0) = 1

\* The buffer of the 1 x 2 source Black over White has been returned.
C8_Witness ==
    /\ buffer # None
    /\ pixmap.width = 1 /\ pixmap.height = 2
    /\ pixmap.pixels = <<Black, White>>
    /\ ByteAt(buffer, 0) = 16

\* The code table of the specification; any other colour is White.
TableCode(colour) ==
    CASE colour = <<0, 0, 0>> -> 0
      [] colour = <<255, 255, 255>> -> 1
      [] colour = <<255, 255, 0>> -> 2
      [] colour = <<255, 0, 0>> -> 3
      [] colour = <<0, 0, 255>> -> 5
      [] colour = <<0, 255, 0>> -> 6
      [] OTHER -> 1

\* The nibble that the iteration (x_new, y_new) of the code ORs into.
NibbleWritten(buf, x_new, y_new) ==
    IF EpdOperand(x_new, y_new, 1) = 1
    THEN ByteAt(buf, EpdBytePos(x_new, y_new, buf.len \div 2)) % 16
    ELSE ByteAt(buf, EpdBytePos(x_new, y_new, buf.len \div 2)) \div 16

\* C9: every pixel that the loop reads is encoded with the code table, a
\* colour outside the palette as White (1); every nibble of the returned
\* buffer is one of 0, 1, 2, 3, 5, 6, never 4.
C9_CodeTable ==
    buffer # None =>
        /\ \A y \in RowsOf(PackSource) : \A x \in 0..(TARGET_W - 1) :
              Passes(PackSource, x, y) =>
                 NibbleWritten(buffer, x, y) =
                    TableCode(RGB(Demultiply(PackSource.pixels[
                        EpdYOld(PackSource.height, x) * PackSource.width + y + 1])))
        /\ \A b \in DOMAIN buffer.bytes :
              /\ buffer.bytes[b] \div 16 \in {0, 1, 2, 3, 5, 6}
              /\ buffer.bytes[b] % 16 \in {0, 1, 2, 3, 5, 6}

\* The buffer of a 2 x 1 source whose first pixel, (10, 10, 10), is not a
\* palette colour and is encoded as 1, and whose second pixel is Green (6).
C9_Witness ==
    /\ buffer # None
    /\ pixmap.width = 2
    /\ pixmap.height = 1
    /\ pixmap.pixels = << <<10, 10, 10, 255>>, <<0, 255, 0, 255>> >>
    /\ NibbleWritten(buffer, 0, 0) = 1
    /\ NibbleWritten(buffer, 0, 1) = 6

(***************************************************************************)
(* Totality.                                                               *)
(***************************************************************************)
ZeroSized == size[1] = 0 \/ size[2] = 0

NearBlack4x4 ==
    /\ pixmap.width = 4
    /\ pixmap.height = 4
    /\ \A i \in 1..16 : RGB(pixmap.pixels[i]) = <<10, 10, 10>>

\* C11: on a 4 x 4 source of (10, 10, 10) only, every position that the
\* loop has visited holds Black, whatever error reached it, and all 16
\* pixels of the returned raster are (0, 0, 0).
C11_NearBlackStaysBlack ==
    NearBlack4x4 =>
        /\ pc = "scan" =>
              \A i \in 1..pos : data[i] = <<FZero, FZero, FZero>>
        /\ dithered # None =>
              /\ Len(dithered.pixels) = 16
              /\ \A i \in 1..16 : RGB(dithered.pixels[i]) = <<0, 0, 0>>

\* The 4 x 4 raster of (10, 10, 10) has been dithered, and the error of the
\* last pixel is above 40: it has accumulated from the earlier pixels.
C11_Witness ==
    /\ NearBlack4x4
    /\ dithered # None
    /\ pos = 16
    /\ FLess(FromInt(40), err[1])

(***************************************************************************)
(* Claims about render_svg.                                                *)
(***************************************************************************)
\* needle occurs in text as a contiguous run (str::contains).
Contains(text, needle) ==
    \E i \in 1..(Len(text) - Len(needle) + 1) :
        SubSeq(text, i, i + Len(needle) - 1) = needle

\* The optional field o is absent, or its text occurs in the output.
Embedded(o) == o # None => Contains(svg, o.some)

\* C12: the text render_svg returns contains the callsign, the flight
\* number, the origin and destination IATA codes, the aircraft type and the
\* photo data URI of the flight, each one that the flight carries.
C12_FieldsEmbedded ==
    (entry = "render_svg" /\ pc = "done") =>
        /\ Contains(svg, flight.callsign)
        /\ Embedded(flight.flight_number)
        /\ Embedded(flight.origin_iata)
        /\ Embedded(flight.dest_iata)
        /\ Embedded(flight.aircraft_type)
        /\ Embedded(flight.photo_base64)

\* A flight that carries all the fields has been rendered, and its text is
\* longer than the fields together.
C12_Witness ==
    /\ entry = "render_svg"
    /\ pc = "done"
    /\ flight.callsign # << >>
    /\ \A k \in {"flight_number", "aircraft_type", "photo_base64",
                 "origin_iata", "origin_name", "dest_iata", "dest_name"} :
          flight[k] # None /\ flight[k].some # << >>
    /\ Len(svg) > Len(flight.callsign) + Len(flight.photo_base64.some)

(***************************************************************************)
(* The diffusion of the error.                                             *)
(***************************************************************************)
\* The Floyd-Steinberg neighbours of a pixel, as offsets (dx, dy), and the
\* sixteenths of the error that each receives.
Neighbours == { <<1, 0>>, <<-1, 1>>, <<0, 1>>, <<1, 1>> }
Weight(off) ==
    CASE off = <<1, 0>> -> 7
      [] off = <<-1, 1>> -> 3
      [] off = <<0, 1>> -> 5
      [] off = <<1, 1>> -> 1

\* The accumulated value v clamped to [0, 255], channel by channel.
Clamped(v) ==
    [c \in 1..3 |-> IF FLess(v[c], FromInt(0)) THEN FromInt(0)
                    ELSE IF FLess(FromInt(255), v[c]) THEN FromInt(255)
                    ELSE v[c]]

\* The palette colour of the clamped value, in f32.
Quantized(v) ==
    [c \in 1..3 |-> FromInt(find_closest_color(Clamped(v))[c])]

\* error = clamped value - quantized colour
ErrorOf(v) == [c \in 1..3 |-> FSub(Clamped(v)[c], Quantized(v)[c])]

\* What the entry at (kx, ky) holds after the visit of (x, y), when it held
\* v and the visited entry held at.
AfterVisit(v, at, kx, ky, x, y) ==
    IF kx = x /\ ky = y THEN Quantized(at)
    ELSE IF <<kx - x, ky - y>> \in Neighbours
    THEN [c \in 1..3 |->
            FAdd(v[c], FMul(ErrorOf(at)[c],
                            FRound(0, Weight(<<kx - x, ky - y>>), -4, 0)))]
    ELSE v

\* C13: the iteration number pos visits (x, y) = (pos % W, pos \div W), so
\* the visits are in row-major order; it stores the quantized colour of the
\* clamped value at (x, y), adds error * 7/16, 3/16, 5/16 and 1/16 to the
\* neighbours (x+1, y), (x-1, y+1), (x, y+1) and (x+1, y+1) that lie inside
\* the raster, and changes no other entry: no entry already visited is
\* modified again.
C13_RowMajorDiffusion ==
    [][ (pc = "scan" /\ pos' # pos) =>
          /\ pos' = pos + 1
          /\ pos < pixmap.width * pixmap.height
          /\ Len(data') = Len(data)
          /\ err' = ErrorOf(data[pos + 1])
          /\ \A k \in 0..(Len(data) - 1) :
                data'[k + 1] =
                    AfterVisit(data[k + 1], data[pos + 1],
                               k % pixmap.width, k \div pixmap.width,
                               pos % pixmap.width, pos \div pixmap.width)
          /\ \A k \in 0..(pos - 1) : data'[k + 1] = data[k + 1]
      ]_vars

\* The loop has just visited (1, 1) of a 4 x 4 raster of grey 40, a pixel
\* with all four neighbours; the error was not zero and the right neighbour
\* (2, 1) has received its share.
C13_Witness ==
    /\ pc = "scan"
    /\ pixmap.width = 4 /\ pixmap.height = 4
    /\ RGB(pixmap.pixels[1]) = <<40, 40, 40>>
    /\ pos = 6
    /\ err[1] # FZero
    /\ FLess(FromInt(40), data[7][1])
    /\ FLess(FromInt(40), data[9][1])
    /\ FLess(FromInt(40), data[10][1])
    /\ FLess(FromInt(40), data[11][1])

(***************************************************************************)
(* Claims about the loop of pixmap_to_epd_bin, iteration by iteration.     *)
(***************************************************************************)
\* The source of the iteration that was taken.
IterationSource ==
    RasterWindow(<<iteration.width, iteration.height>>, iteration.seed, iteration.stride)

\* Its width and height alone.
IterationShape == [width |-> iteration.width, height |-> iteration.height]

\* The (byte, nibble) slot that the code gives to destination (x_new, y_new).
SlotWritten(x_new, y_new) ==
    <<EpdBytePos(x_new, y_new, EpdBufferLen \div 2), EpdOperand(x_new, y_new, 1) = 1>>

\* The destinations in the row and in the column of (x_new, y_new) and at
\* the edges, (x_new, y_new) itself left out.
OtherDestinations(x_new, y_new) ==
    ( { <<x, y_new>> : x \in 0..(TARGET_W - 1) }
      \cup { <<x_new, y>> : y \in 0..(TARGET_H - 1) }
      \cup (EdgeColumns \X EdgeRows) ) \ { <<x_new, y_new>> }

\* The byte that holds code in the nibble of the slot.
InSlot(slot, code) == slot[1] :> (IF slot[2] THEN code ELSE code * 16)

\* C14: on a 1600 x 1200 source, the iteration at (x_new, y_new) passes the
\* bounds check and writes once; it encodes the source pixel
\* (x_old, y_old) = (y_new, 1199 - x_new), so that pixel (x_old, y_old) is
\* encoded at (1199 - y_old, x_old); no other destination reads that pixel
\* or writes that slot, and there are as many destinations as source pixels.
C14_NativeIsRotation ==
    (pc = "looped" /\ iteration.width = 1600 /\ iteration.height = 1200) =>
        /\ iteration.y_new \in 0..1599
        /\ 1199 - iteration.x_new \in 0..1199
        /\ EpdPIdx(IterationShape, iteration.x_new, iteration.y_new)
              = (1199 - iteration.x_new) * 1600 + iteration.y_new
        /\ iteration.write =
              InSlot(SlotWritten(iteration.x_new, iteration.y_new),
                     TableCode(RGB(Demultiply(IterationSource.pixels[
                        (1199 - iteration.x_new) * 1600 + iteration.y_new + 1]))))
        /\ \A d \in OtherDestinations(iteration.x_new, iteration.y_new) :
              /\ Passes(IterationShape, d[1], d[2])
              /\ EpdPIdx(IterationShape, d[1], d[2])
                    # EpdPIdx(IterationShape, iteration.x_new, iteration.y_new)
              /\ SlotWritten(d[1], d[2]) # SlotWritten(iteration.x_new, iteration.y_new)
        /\ TARGET_W * TARGET_H = 1600 * 1200

\* The last iteration on a 1600 x 1200 source, at (1199, 1599), has written
\* the code of the source pixel (1599, 0), which is not Black.
C14_Witness ==
    /\ pc = "looped"
    /\ iteration.width = 1600 /\ iteration.height = 1200
    /\ iteration.x_new = 1199 /\ iteration.y_new = 1599
    /\ EpdPIdx(IterationShape, 1199, 1599) = 1599
    /\ iteration.write # << >>
    /\ \E b \in DOMAIN iteration.write : iteration.write[b] # 0

\* The destinations whose iteration passes the bounds check.
Written(pm) ==
    { d \in (0..(TARGET_W - 1)) \X RowsOf(pm) : Passes(pm, d[1], d[2]) }

\* C15: every byte index that an iteration writes is inside the buffer, in
\* its first half when x_new < 600 and in its second half otherwise; no
\* other destination has the slot of the iteration, so no slot is written
\* twice in a call; and every nibble that is written holds exactly the code
\* of the pixel that its one iteration read.
C15_WritesInBoundsOnce ==
    /\ (pc = "looped" /\ iteration.write # << >>) =>
          /\ \A b \in DOMAIN iteration.write :
                /\ b \in 0..(EpdBufferLen - 1)
                /\ iteration.x_new < 600 => b < EpdBufferLen \div 2
                /\ iteration.x_new >= 600 => b >= EpdBufferLen \div 2
          /\ iteration.write =
                InSlot(SlotWritten(iteration.x_new, iteration.y_new),
                       CodeRead(IterationSource, iteration.x_new, iteration.y_new))
          /\ \A d \in OtherDestinations(iteration.x_new, iteration.y_new) :
                SlotWritten(d[1], d[2]) # SlotWritten(iteration.x_new, iteration.y_new)
    /\ (entry = "pixmap_to_epd_bin" /\ buffer # None) =>
          /\ Cardinality({ SlotWritten(d[1], d[2]) : d \in Written(pixmap) })
                = Cardinality(Written(pixmap))
          /\ DOMAIN buffer.bytes = { SlotWritten(d[1], d[2])[1] : d \in Written(pixmap) }
          /\ \A b \in DOMAIN buffer.bytes : b \in 0..(buffer.len - 1)
          /\ \A d \in Written(pixmap) :
                NibbleWritten(buffer, d[1], d[2]) = CodeRead(pixmap, d[1], d[2])

\* The iteration at (600, 1599) on a 2000 x 3000 source has written into the
\* second half of the buffer.
C15_Witness ==
    /\ pc = "looped"
    /\ iteration.width = 2000 /\ iteration.height = 3000
    /\ iteration.x_new = 600 /\ iteration.y_new = 1599
    /\ iteration.write # << >>
    /\ \A b \in DOMAIN iteration.write : b >= 480000

====
